---------------------------- MODULE Spec2Model ----------------------------
(***************************************************************************)
(* A model of implot3d_internal.h: the colour blend ImMixU32, the colormap *)
(* registry ImPlot3DColormapData and the tick collection ImPlot3DTicker.   *)
(*                                                                         *)
(* Representation.  TLC's integers are 32-bit signed, so an ImU32 is kept  *)
(* as two 16-bit limbs <<lo, hi>> (value lo + 65536*hi) and an ImU64 as    *)
(* four; every operation below wraps at the width the C type has.  C       *)
(* arrays are 0-based, TLA+ sequences 1-based: At(s, i) is s[i] of the     *)
(* code.  A C string is a sequence of character codes, 0 the terminator.   *)
(***************************************************************************)
EXTENDS Integers, Sequences, FiniteSets, TLC

VARIABLES
    \* ImPlot3DColormapData (src/implot3d_internal.h:138-151)
    Keys, KeyCounts, KeyOffsets, Tables, TableSizes, TableOffsets,
    Text, TextOffsets, Quals, Map, Count,
    \* the last call made on the registry: its arguments and what it returned
    op,
    \* the colormaps whose table _AppendTable wrote during the last call
    rebuilt,
    \* ImPlot3DTicker (src/implot3d_internal.h:329-331)
    Ticks, TextBuffer,
    \* the last call made on the ticker, its arguments and the call before it
    tickOp,
    \* one call of ImMixU32: the build, the arguments, the result
    mixBuild, mixA, mixB, mixS, mixRet, mixPc

cmapVars == <<Keys, KeyCounts, KeyOffsets, Tables, TableSizes, TableOffsets,
              Text, TextOffsets, Quals, Map, Count>>
tickerVars == <<Ticks, TextBuffer>>
mixVars == <<mixBuild, mixA, mixB, mixS, mixRet, mixPc>>
vars == <<cmapVars, op, rebuilt, tickerVars, tickOp, mixVars>>

-----------------------------------------------------------------------------
(* Bounds of the model *)

\* the largest key count Append is called with
MaxKeys == 2
\* t of LerpTable ranges over the multiples of 1/2^TBits in [0,1]
TBits == 2
\* the largest number of ticks added between two Resets
MaxTicks == 3

-----------------------------------------------------------------------------
(* Fixed-width words *)

At(s, i) == s[i + 1]

Limb == 65536

\* x & y and x | y on one limb.  The masks of the code select whole bytes,
\* and then the result is the byte itself: those cases are answered at once.
RECURSIVE BitAnd(_, _)
BitAnd(x, y) ==
    IF x = 0 \/ y = 0 THEN 0
    ELSE IF y = 255 THEN x % 256
    ELSE IF y = 65280 THEN (x \div 256) * 256
    ELSE (x % 2) * (y % 2) + 2 * BitAnd(x \div 2, y \div 2)

RECURSIVE BitOr(_, _)
BitOr(x, y) ==
    IF x = 0 THEN y
    ELSE IF y = 0 THEN x
    ELSE IF x % 256 = 0 /\ y < 256 THEN x + y
    ELSE (IF x % 2 = 1 \/ y % 2 = 1 THEN 1 ELSE 0) + 2 * BitOr(x \div 2, y \div 2)

\* 32-bit: x & m, x | y, x >> 8, x + y, x * f for a factor f < 2^15
And32(x, m) == <<BitAnd(x[1], m[1]), BitAnd(x[2], m[2])>>
Or32(x, y) == <<BitOr(x[1], y[1]), BitOr(x[2], y[2])>>
Shr8(x) == <<(x[1] \div 256) + (x[2] % 256) * 256, x[2] \div 256>>
Add32(x, y) ==
    LET s0 == x[1] + y[1]
    IN  <<s0 % Limb, (x[2] + y[2] + s0 \div Limb) % Limb>>
Mul32(x, f) ==
    LET p0 == x[1] * f
        p1 == x[2] * f + p0 \div Limb
    IN  <<p0 % Limb, p1 % Limb>>

\* 64-bit: (ImU64)x << 24, x | y, x + y, x * f, x >> 32 and the low word
Shl24to64(x) ==
    <<0, (x[1] % 256) * 256, (x[1] \div 256) + (x[2] % 256) * 256, x[2] \div 256>>
Widen64(x) == <<x[1], x[2], 0, 0>>
Or64(x, y) == [i \in 1..4 |-> BitOr(x[i], y[i])]
Add64(x, y) ==
    LET s1 == x[1] + y[1]
        s2 == x[2] + y[2] + s1 \div Limb
        s3 == x[3] + y[3] + s2 \div Limb
        s4 == x[4] + y[4] + s3 \div Limb
    IN  <<s1 % Limb, s2 % Limb, s3 % Limb, s4 % Limb>>
Mul64(x, f) ==
    LET p1 == x[1] * f
        p2 == x[2] * f + p1 \div Limb
        p3 == x[3] * f + p2 \div Limb
        p4 == x[4] * f + p3 \div Limb
    IN  <<p1 % Limb, p2 % Limb, p3 % Limb, p4 % Limb>>
Shr32of64(x) == <<x[3], x[4]>>
Low32of64(x) == <<x[1], x[2]>>

\* 0x00ff00ff and 0xff00ff00
MaskLoBytes == <<255, 255>>
MaskHiBytes == <<65280, 65280>>

\* byte c (0..3, from the least significant) of a packed colour
Channel(x, c) ==
    IF c = 0 THEN x[1] % 256
    ELSE IF c = 1 THEN x[1] \div 256
    ELSE IF c = 2 THEN x[2] % 256
    ELSE x[2] \div 256

-----------------------------------------------------------------------------
(* ImMixU32: mix colour a and b by factor s in [0 256].  s is an ImU32; the *)
(* model calls it with s in 0..256 only, so 256 - s does not wrap.          *)

\* ImMixU32 without the >> 8 of the high bytes before the multiplication
ImMixU32_NoPreShift(a, b, s) ==
    LET af == 256 - s
        bf == s
        al == And32(a, MaskLoBytes)
        ah == And32(a, MaskHiBytes)
        bl == And32(b, MaskLoBytes)
        bh == And32(b, MaskHiBytes)
        ml == Add32(Mul32(al, af), Mul32(bl, bf))
        mh == Shr8(Add32(Mul32(ah, af), Mul32(bh, bf)))
    IN  Or32(And32(mh, MaskHiBytes), Shr8(And32(ml, MaskHiBytes)))

\* the default build (the #else branch)
ImMixU32(a, b, s) ==
    LET af == 256 - s
        bf == s
        al == And32(a, MaskLoBytes)
        ah == Shr8(And32(a, MaskHiBytes))
        bl == And32(b, MaskLoBytes)
        bh == Shr8(And32(b, MaskHiBytes))
        ml == Add32(Mul32(al, af), Mul32(bl, bf))
        mh == Add32(Mul32(ah, af), Mul32(bh, bf))
    IN  Or32(And32(mh, MaskHiBytes), Shr8(And32(ml, MaskHiBytes)))

\* the build with IMPLOT_MIX64 defined
ImMixU32_MIX64(a, b, s) ==
    LET af == 256 - s
        bf == s
        al == Or64(Widen64(And32(a, MaskLoBytes)), Shl24to64(And32(a, MaskHiBytes)))
        bl == Or64(Widen64(And32(b, MaskLoBytes)), Shl24to64(And32(b, MaskHiBytes)))
        mix == Add64(Mul64(al, af), Mul64(bl, bf))
    IN  Or32(And32(Shr32of64(mix), MaskHiBytes),
             Shr8(And32(Low32of64(mix), MaskHiBytes)))

-----------------------------------------------------------------------------
(* Inputs of the registry model *)

\* key colours: 0xFF0000FF and 0x0000FFFF
KeyColors == {<<255, 65280>>, <<65535, 0>>}

\* what a read outside the Keys or Tables storage may yield (0xDEADBEEF
\* stands for any other word)
Garbage == KeyColors \cup {<<48879, 57005>>}

\* colormap names: "A", "B" and " !"
Names == {<<65>>, <<66>>, <<32, 33>>}

\* t = n / TDen
TDen == 2 ^ TBits

-----------------------------------------------------------------------------
(* The host toolkit's helpers the registry and the ticker are built on *)

RECURSIVE SumChars(_)
SumChars(str) == IF str = <<>> THEN 0 ELSE Head(str) + SumChars(Tail(str))

\* ImHashStr: a deterministic hash of the name that is not injective.  The
\* host's hash is a CRC32; a checksum stands for it here, under which the
\* names "A" and " !" collide.
ImHashStr(name) == SumChars(name) % 64

\* ImGuiStorage::GetInt(key, default_val) and SetInt(key, val)
GetInt(map, key, default_val) == IF key \in DOMAIN map THEN map[key] ELSE default_val
SetInt(map, key, val) == (key :> val) @@ map

\* ImGuiTextBuffer: Buf holds the text and one terminating zero once it is
\* not empty; size() is the length of the text without that zero.
TextSize(buf) == IF Len(buf) # 0 THEN Len(buf) - 1 ELSE 0

\* ImGuiTextBuffer::append(str, str_end), chars the bytes of [str, str_end):
\* written over the terminating zero, followed by a new one
TextAppend(buf, chars) ==
    LET write_off == IF Len(buf) # 0 THEN Len(buf) ELSE 1
    IN  SubSeq(buf, 1, write_off - 1) \o chars \o <<0>>

\* the C string that starts at buf + off
RECURSIVE CStr(_, _)
CStr(buf, off) ==
    IF off < 0 \/ off >= Len(buf) \/ At(buf, off) = 0 THEN <<>>
    ELSE <<At(buf, off)>> \o CStr(buf, off + 1)

\* ImClamp(v, mn, mx)
ImClamp(v, mn, mx) == IF v < mn THEN mn ELSE IF v > mx THEN mx ELSE v

\* (int)(n / d) for d > 0: the conversion of a float to int truncates
TruncDiv(n, d) == IF n >= 0 THEN n \div d ELSE -((-n) \div d)

-----------------------------------------------------------------------------
(* ImPlot3DColormapData.  The operations are written on a record d of the   *)
(* struct's fields and return the struct after the call.                    *)

Data == [Keys |-> Keys, KeyCounts |-> KeyCounts, KeyOffsets |-> KeyOffsets,
         Tables |-> Tables, TableSizes |-> TableSizes, TableOffsets |-> TableOffsets,
         Text |-> Text, TextOffsets |-> TextOffsets, Quals |-> Quals,
         Map |-> Map, Count |-> Count,
         \* not a field: the colormaps whose table the call has written
         Written |-> {}]

IsQual(d, cmap) == At(d.Quals, cmap)
GetName(d, cmap) == CStr(d.Text, At(d.TextOffsets, cmap))
GetIndex(d, name) == GetInt(d.Map, ImHashStr(name), -1)
GetKeyCount(d, cmap) == At(d.KeyCounts, cmap)
GetKeyColor(d, cmap, idx) == At(d.Keys, At(d.KeyOffsets, cmap) + idx)
GetTableSize(d, cmap) == At(d.TableSizes, cmap)
GetTableColor(d, cmap, idx) == At(d.Tables, At(d.TableOffsets, cmap) + idx)

\* keys[i] for keys = GetKeys(cmap): Keys[KeyOffsets[cmap] + i] when that is
\* inside Keys; a read outside it yields g
ReadKey(d, cmap, i, g) ==
    LET k == At(d.KeyOffsets, cmap) + i
    IN  IF k >= 0 /\ k < Len(d.Keys) THEN At(d.Keys, k) ELSE g

\* Tables[i], a read outside Tables yields g
ReadTable(d, i, g) == IF i >= 0 /\ i < Len(d.Tables) THEN At(d.Tables, i) ELSE g

\* ImMixU32(a, b, s) for the keys and the factors _AppendTable calls it with,
\* tabulated
MixOfKeys == [a \in KeyColors, b \in KeyColors |-> [s \in 0..254 |-> ImMixU32(a, b, s)]]

\* the colormaps for which _AppendTable reads keys[-1] (no key, continuous)
ReadsNoKey(d, cmap) == GetKeyCount(d, cmap) = 0 /\ ~IsQual(d, cmap)

\* _AppendTable with the inner loop running s = 1..255 instead of 0..254
_AppendTable_BlendFromOne(d, cmap, g) ==
    LET key_count == GetKeyCount(d, cmap)
        keys(i) == ReadKey(d, cmap, i, g)
        off == Len(d.Tables)
        d1 == [d EXCEPT !.TableOffsets = Append(@, off), !.Written = @ \cup {cmap}]
    IN  IF IsQual(d, cmap)
        THEN [d1 EXCEPT !.Tables = @ \o [i \in 1..key_count |-> keys(i - 1)],
                        !.TableSizes = Append(@, key_count)]
        ELSE LET max_size == 255 * (key_count - 1) + 1
                 blend(n) == ImMixU32(keys(n \div 255), keys(n \div 255 + 1), (n % 255) + 1)
             IN  [d1 EXCEPT !.Tables = @ \o [n \in 1..(255 * (key_count - 1)) |-> blend(n - 1)]
                                         \o <<keys(key_count - 1)>>,
                            !.TableSizes = Append(@, max_size)]

_AppendTable(d, cmap, g) ==
    LET key_count == GetKeyCount(d, cmap)
        keys(i) == ReadKey(d, cmap, i, g)
        off == Len(d.Tables)
        d1 == [d EXCEPT !.TableOffsets = Append(@, off), !.Written = @ \cup {cmap}]
    IN  IF IsQual(d, cmap)
        THEN [d1 EXCEPT !.Tables = @ \o [i \in 1..key_count |-> keys(i - 1)],
                        !.TableSizes = Append(@, key_count)]
        ELSE LET max_size == 255 * (key_count - 1) + 1
                 \* the n-th push_back of the two loops: i = n \div 255, s = n % 255
                 blend(n) == MixOfKeys[keys(n \div 255), keys(n \div 255 + 1)][n % 255]
             IN  [d1 EXCEPT !.Tables = @ \o [n \in 1..(255 * (key_count - 1)) |-> blend(n - 1)]
                                         \o <<keys(key_count - 1)>>,
                            !.TableSizes = Append(@, max_size)]

\* the loop of RebuildTables from colormap i on; g[c] is what colormap c's
\* read outside Keys yields
RECURSIVE RebuildFrom(_, _, _)
RebuildFrom(d, i, g) ==
    IF i >= d.Count THEN d
    ELSE RebuildFrom(_AppendTable(d, i, IF i \in DOMAIN g THEN g[i] ELSE <<0, 0>>), i + 1, g)

\* RebuildTables without Tables.resize(0)
RebuildTables_KeepTables(d, g) ==
    RebuildFrom([d EXCEPT !.TableSizes = <<>>, !.TableOffsets = <<>>], 0, g)

RebuildTables(d, g) ==
    RebuildFrom([d EXCEPT !.Tables = <<>>, !.TableSizes = <<>>, !.TableOffsets = <<>>], 0, g)

\* Append pushing the key offset before it looks the name up
CmapAppend_PushBeforeCheck(d, name, keys, count, qual, g) ==
    LET d0 == [d EXCEPT !.KeyOffsets = Append(@, Len(d.Keys))]
    IN  IF GetIndex(d, name) # -1 THEN [d |-> d0, ret |-> -1]
        ELSE LET idx == d.Count
                 d1 == [d0 EXCEPT !.KeyCounts = Append(@, count),
                                  !.Keys = @ \o SubSeq(keys, 1, count),
                                  !.TextOffsets = Append(@, TextSize(d.Text)),
                                  !.Text = TextAppend(@, name \o <<0>>),
                                  !.Quals = Append(@, qual),
                                  !.Count = @ + 1,
                                  !.Map = SetInt(@, ImHashStr(name), idx)]
             IN  [d |-> _AppendTable(d1, idx, g), ret |-> idx]

\* Append returning Count (after the increment) instead of idx
CmapAppend_ReturnCount(d, name, keys, count, qual, g) ==
    IF GetIndex(d, name) # -1 THEN [d |-> d, ret |-> -1]
    ELSE LET idx == d.Count
             d1 == [d EXCEPT !.KeyOffsets = Append(@, Len(d.Keys)),
                             !.KeyCounts = Append(@, count),
                             !.Keys = @ \o SubSeq(keys, 1, count),
                             !.TextOffsets = Append(@, TextSize(d.Text)),
                             !.Text = TextAppend(@, name \o <<0>>),
                             !.Quals = Append(@, qual),
                             !.Count = @ + 1,
                             !.Map = SetInt(@, ImHashStr(name), idx)]
         IN  [d |-> _AppendTable(d1, idx, g), ret |-> d1.Count]

\* Append(name, keys, count, qual): the struct after the call and the value returned
CmapAppend(d, name, keys, count, qual, g) ==
    IF GetIndex(d, name) # -1 THEN [d |-> d, ret |-> -1]
    ELSE LET idx == d.Count
             d1 == [d EXCEPT !.KeyOffsets = Append(@, Len(d.Keys)),
                             !.KeyCounts = Append(@, count),
                             !.Keys = @ \o SubSeq(keys, 1, count),
                             !.TextOffsets = Append(@, TextSize(d.Text)),
                             !.Text = TextAppend(@, name \o <<0>>),
                             !.Quals = Append(@, qual),
                             !.Count = @ + 1,
                             !.Map = SetInt(@, ImHashStr(name), idx)]
         IN  [d |-> _AppendTable(d1, idx, g), ret |-> idx]

\* SetKeyColor without the call of RebuildTables
SetKeyColor_NoRebuild(d, cmap, idx, value, g) ==
    [d EXCEPT !.Keys[At(d.KeyOffsets, cmap) + idx + 1] = value]

SetKeyColor(d, cmap, idx, value, g) ==
    RebuildTables([d EXCEPT !.Keys[At(d.KeyOffsets, cmap) + idx + 1] = value], g)

\* LerpTable without the ImClamp of the qualitative index
LerpIndex_NoClamp(d, cmap, tn) ==
    LET siz == At(d.TableSizes, cmap)
    IN  IF At(d.Quals, cmap)
        THEN TruncDiv(siz * tn, TDen)
        ELSE TruncDiv(2 * (siz - 1) * tn + TDen, 2 * TDen)

\* the index LerpTable computes for t = tn / TDen
LerpIndex(d, cmap, tn) ==
    LET siz == At(d.TableSizes, cmap)
    IN  IF At(d.Quals, cmap)
        THEN ImClamp(TruncDiv(siz * tn, TDen), 0, siz - 1)
        ELSE TruncDiv(2 * (siz - 1) * tn + TDen, 2 * TDen)

LerpTable(d, cmap, tn, g) ==
    ReadTable(d, At(d.TableOffsets, cmap) + LerpIndex(d, cmap, tn), g)

-----------------------------------------------------------------------------
(* ImPlot3DTick and ImPlot3DTicker.  LabelSize, the text measurement of the *)
(* host toolkit, is left out: no operation of the ticker reads it.          *)

\* #define IMPLOT3D_LABEL_MAX_SIZE 32
IMPLOT3D_LABEL_MAX_SIZE == 32

\* a null const char*
NullLabel == <<-1>>

\* the formatter argument: a null pointer, or the default formatter
NullFormatter == "nullptr"
Formatters == {NullFormatter, "Formatter_Default"}

\* the decimal digits of a natural number, as character codes
RECURSIVE Digits(_)
Digits(n) == IF n < 10 THEN <<48 + n>> ELSE Digits(n \div 10) \o <<48 + (n % 10)>>

\* what Formatter_Default(value, buff, size, data) leaves in buff, up to its
\* terminator: the digits of value, cut to size - 1 characters
Formatter_Default(value, size) ==
    LET str == Digits(value)
    IN  IF Len(str) > size - 1 THEN SubSeq(str, 1, size - 1) ELSE str

Ticker == [Ticks |-> Ticks, TextBuffer |-> TextBuffer]

\* the constructor; Idx is not set by it (-1 stands for the unset field,
\* which AddTick(tick) sets before the tick is stored)
ImPlot3DTick(value, major, show_label) ==
    [PlotPos |-> value, Major |-> major, ShowLabel |-> show_label,
     TextOffset |-> -1, Idx |-> -1]

\* AddTick(tick) with Idx taken after the push_back
AddTick_IdxAfterPush(t, tick) ==
    [t EXCEPT !.Ticks = Append(@, [tick EXCEPT !.Idx = Len(t.Ticks) + 1])]

\* AddTick(ImPlot3DTick tick)
AddTick(t, tick) ==
    [t EXCEPT !.Ticks = Append(@, [tick EXCEPT !.Idx = Len(t.Ticks)])]

\* AddTick(value, major, show_label, label) copying strlen(label) bytes
AddTickLabel_NoTerminator(t, value, major, show_label, label) ==
    LET tick == ImPlot3DTick(value, major, show_label)
    IN  IF show_label /\ label # NullLabel
        THEN AddTick([t EXCEPT !.TextBuffer = TextAppend(@, label)],
                     [tick EXCEPT !.TextOffset = TextSize(t.TextBuffer)])
        ELSE AddTick(t, tick)

\* AddTick(double value, bool major, bool show_label, const char* label)
AddTickLabel(t, value, major, show_label, label) ==
    LET tick == ImPlot3DTick(value, major, show_label)
    IN  IF show_label /\ label # NullLabel
        THEN AddTick([t EXCEPT !.TextBuffer = TextAppend(@, label \o <<0>>)],
                     [tick EXCEPT !.TextOffset = TextSize(t.TextBuffer)])
        ELSE AddTick(t, tick)

\* AddTick(double value, bool major, bool show_label, ImPlot3DFormatter
\* formatter, void* data)
AddTickFormatter(t, value, major, show_label, formatter) ==
    LET tick == ImPlot3DTick(value, major, show_label)
    IN  IF show_label /\ formatter # NullFormatter
        THEN LET buff == Formatter_Default(tick.PlotPos, IMPLOT3D_LABEL_MAX_SIZE)
             IN  AddTick([t EXCEPT !.TextBuffer = TextAppend(@, buff \o <<0>>)],
                         [tick EXCEPT !.TextOffset = TextSize(t.TextBuffer)])
        ELSE AddTick(t, tick)

\* GetText(int idx)
GetText(t, idx) == CStr(t.TextBuffer, At(t.Ticks, idx).TextOffset)

\* Reset(): both vectors shrink to size 0
Reset(t) == [t EXCEPT !.Ticks = <<>>, !.TextBuffer = <<>>]

TickCount(t) == Len(t.Ticks)

-----------------------------------------------------------------------------
(* The registry as a state machine: Append, SetKeyColor and LerpTable are   *)
(* called in any order with any arguments.  In a build with IM_ASSERT       *)
(* enabled a call that indexes Keys or Tables outside its size aborts the   *)
(* program (no step); the steps below are those of a build without it.      *)

NoCall == [kind |-> "none", name |-> <<>>, cmap |-> -1, idx |-> -1,
           value |-> <<0, 0>>, t |-> 0, ret |-> -1]

InitCmap ==
    /\ Keys = <<>> /\ KeyCounts = <<>> /\ KeyOffsets = <<>>
    /\ Tables = <<>> /\ TableSizes = <<>> /\ TableOffsets = <<>>
    /\ Text = <<>> /\ TextOffsets = <<>> /\ Quals = <<>>
    /\ Map = <<>> /\ Count = 0
    /\ op = NoCall /\ rebuilt = {}

NoTickCall == [kind |-> "none", prev |-> "none", show_label |-> FALSE, label |-> <<-1>>]

InitTicker == Ticks = <<>> /\ TextBuffer = <<>> /\ tickOp = NoTickCall

InitMixIdle ==
    /\ mixBuild = "MIX32" /\ mixA = <<0, 0>> /\ mixB = <<0, 0>> /\ mixS = 0
    /\ mixRet = <<0, 0>> /\ mixPc = "idle"

\* the struct's fields become those of d
Store(d) ==
    /\ Keys' = d.Keys /\ KeyCounts' = d.KeyCounts /\ KeyOffsets' = d.KeyOffsets
    /\ Tables' = d.Tables /\ TableSizes' = d.TableSizes /\ TableOffsets' = d.TableOffsets
    /\ Text' = d.Text /\ TextOffsets' = d.TextOffsets /\ Quals' = d.Quals
    /\ Map' = d.Map /\ Count' = d.Count
    /\ rebuilt' = d.Written

\* the values an out-of-bounds read can yield, if the call makes one
Yields(reads_outside) == IF reads_outside THEN Garbage ELSE {<<0, 0>>}

\* Append(name, keys, count, qual).  keys, count and qual are not read when
\* the name is found (the early return), so that case is taken per name.
CallAppend ==
    /\ op.kind = "none"
    /\ \E name \in Names :
         \/ /\ GetIndex(Data, name) # -1
            /\ LET r == CmapAppend(Data, name, <<>>, 0, FALSE, <<0, 0>>)
               IN  /\ Store(r.d)
                   /\ op' = [NoCall EXCEPT !.kind = "Append", !.name = name, !.ret = r.ret]
         \/ /\ GetIndex(Data, name) = -1
            /\ \E count \in 0..MaxKeys, qual \in BOOLEAN :
                 \E keys \in [1..count -> KeyColors] :
                   \E g \in Yields(count = 0 /\ ~qual /\ Len(Keys) = 0) :
                     LET r == CmapAppend(Data, name, keys, count, qual, g)
                     IN  /\ Store(r.d)
                         /\ op' = [NoCall EXCEPT !.kind = "Append", !.name = name,
                                                 !.ret = r.ret]
    /\ UNCHANGED <<tickerVars, tickOp, mixVars>>

\* SetKeyColor(cmap, idx, value) on a registered colormap and one of its keys
CallSetKeyColor ==
    /\ op.kind = "none"
    /\ \E cmap \in 0..(Count - 1), value \in KeyColors :
         \E idx \in 0..(GetKeyCount(Data, cmap) - 1) :
           \E g \in [{c \in 0..(Count - 1) : ReadsNoKey(Data, c) /\ At(KeyOffsets, c) = 0}
                       -> Garbage] :
             /\ Store(SetKeyColor(Data, cmap, idx, value, g))
             /\ op' = [NoCall EXCEPT !.kind = "SetKeyColor", !.cmap = cmap, !.idx = idx,
                                     !.value = value]
    /\ UNCHANGED <<tickerVars, tickOp, mixVars>>

\* LerpTable(cmap, t) on a registered colormap, t = tn / TDen
CallLerpTable ==
    /\ op.kind = "none"
    /\ \E cmap \in 0..(Count - 1), tn \in 0..TDen :
         LET i == At(TableOffsets, cmap) + LerpIndex(Data, cmap, tn)
         IN  \E g \in Yields(i < 0 \/ i >= Len(Tables)) :
               op' = [NoCall EXCEPT !.kind = "LerpTable", !.cmap = cmap, !.t = tn,
                                    !.ret = LerpTable(Data, cmap, tn, g)]
    /\ rebuilt' = {}
    /\ UNCHANGED <<cmapVars, tickerVars, tickOp, mixVars>>

\* the call returns: the caller has its result and may call again
Return ==
    /\ op.kind # "none"
    /\ op' = NoCall
    /\ rebuilt' = {}
    /\ UNCHANGED <<cmapVars, tickerVars, tickOp, mixVars>>

Init == InitCmap /\ InitTicker /\ InitMixIdle

Next == CallAppend \/ CallSetKeyColor \/ CallLerpTable \/ Return

Spec == Init /\ [][Next]_vars

-----------------------------------------------------------------------------
(* The ticker as a state machine: ticks are added, with a label or through  *)
(* a formatter, and the ticker is reset, in any order.                      *)

\* tick positions, and the labels "" and "10"
TickValues == {0, 10}
TickLabels == {<<>>, <<49, 48>>}

StoreTicker(t) == Ticks' = t.Ticks /\ TextBuffer' = t.TextBuffer

CallAddTickLabel ==
    /\ Len(Ticks) < MaxTicks
    /\ \E value \in TickValues, major \in BOOLEAN, show_label \in BOOLEAN,
          label \in TickLabels \cup {NullLabel} :
         /\ StoreTicker(AddTickLabel(Ticker, value, major, show_label, label))
         /\ tickOp' = [kind |-> "AddTick", prev |-> tickOp.kind,
                       show_label |-> show_label, label |-> label]
    /\ UNCHANGED <<cmapVars, op, rebuilt, mixVars>>

CallAddTickFormatter ==
    /\ Len(Ticks) < MaxTicks
    /\ \E value \in TickValues, major \in BOOLEAN, show_label \in BOOLEAN,
          formatter \in Formatters :
         /\ StoreTicker(AddTickFormatter(Ticker, value, major, show_label, formatter))
         /\ tickOp' = [kind |-> "AddTick", prev |-> tickOp.kind,
                       show_label |-> show_label,
                       label |-> IF formatter = NullFormatter THEN NullLabel
                                 ELSE Formatter_Default(value, IMPLOT3D_LABEL_MAX_SIZE)]
    /\ UNCHANGED <<cmapVars, op, rebuilt, mixVars>>

CallReset ==
    /\ StoreTicker(Reset(Ticker))
    /\ tickOp' = [NoTickCall EXCEPT !.kind = "Reset", !.prev = tickOp.kind]
    /\ UNCHANGED <<cmapVars, op, rebuilt, mixVars>>

NextTicker == CallAddTickLabel \/ CallAddTickFormatter \/ CallReset

SpecTicker == Init /\ [][NextTicker]_vars

-----------------------------------------------------------------------------
(* Properties of the registry *)

Cmaps == 0..(Count - 1)

\* the dense table of colormap c: GetTable(c)[0 .. GetTableSize(c) - 1]
TableOf(d, c) ==
    SubSeq(d.Tables, At(d.TableOffsets, c) + 1, At(d.TableOffsets, c) + GetTableSize(d, c))

\* the keys of colormap c: GetKeys(c)[0 .. GetKeyCount(c) - 1]
KeysOf(d, c) ==
    SubSeq(d.Keys, At(d.KeyOffsets, c) + 1, At(d.KeyOffsets, c) + GetKeyCount(d, c))

\* name is the name of a registered colormap
Registered(d, name) == \E c \in 0..(d.Count - 1) : GetName(d, c) = name

\* C1: every continuous colormap with k >= 1 keys has a table of
\* 255*(k-1)+1 entries whose first entry is its first key and whose last
\* entry is its last key, after any calls of Append and SetKeyColor.
ContinuousTableShape ==
    \A c \in Cmaps :
        (~IsQual(Data, c) /\ GetKeyCount(Data, c) >= 1) =>
            LET k == GetKeyCount(Data, c)
                size == GetTableSize(Data, c)
            IN  /\ size = 255 * (k - 1) + 1
                /\ GetTableColor(Data, c, 0) = GetKeyColor(Data, c, 0)
                /\ GetTableColor(Data, c, size - 1) = GetKeyColor(Data, c, k - 1)

\* a continuous colormap with two different keys, registered second, whose
\* key SetKeyColor has just replaced
ContinuousTableShapeWitness ==
    /\ op.kind = "SetKeyColor" /\ op.cmap = 1
    /\ Count = 2 /\ ~IsQual(Data, 1) /\ GetKeyCount(Data, 1) = 2
    /\ GetKeyColor(Data, 1, 0) # GetKeyColor(Data, 1, 1)
    /\ GetTableSize(Data, 1) = 256

\* C2: every qualitative colormap with k keys has a table of k entries that
\* equals its keys entry by entry, wherever it is in the registry.
QualitativeTableIsKeys ==
    \A c \in Cmaps :
        IsQual(Data, c) =>
            /\ GetTableSize(Data, c) = GetKeyCount(Data, c)
            /\ \A i \in 0..(GetKeyCount(Data, c) - 1) :
                   GetTableColor(Data, c, i) = GetKeyColor(Data, c, i)

\* a qualitative colormap of two keys registered after a continuous one,
\* whose second key SetKeyColor has just replaced
QualitativeTableIsKeysWitness ==
    /\ op.kind = "SetKeyColor" /\ op.cmap = 1 /\ op.idx = 1
    /\ Count = 2 /\ IsQual(Data, 1) /\ GetKeyCount(Data, 1) = 2
    /\ ~IsQual(Data, 0) /\ GetKeyCount(Data, 0) = 2
    /\ GetKeyColor(Data, 1, 0) # GetKeyColor(Data, 1, 1)

\* C3: Append with the name of a registered colormap returns -1 and leaves
\* every field of the registry as it was.
DuplicateAppendRejected ==
    [][(op'.kind = "Append" /\ Registered(Data, op'.name)) =>
           (op'.ret = -1 /\ UNCHANGED cmapVars)]_vars

\* Append has just been called with the name of a registered colormap
DuplicateAppendRejectedWitness ==
    /\ op.kind = "Append" /\ op.ret = -1
    /\ Count = 2 /\ Registered(Data, op.name)

\* floor(n / d) and round(n / d), d > 0, n >= 0 for round
Floor(n, d) == n \div d
Round(n, d) == (2 * n + d) \div (2 * d)
Clamp(v, lo, hi) == IF v < lo THEN lo ELSE IF v > hi THEN hi ELSE v

\* the index the two rounding rules give for colormap c at t = tn / TDen
PolicyIndex(c, tn) ==
    LET size == GetTableSize(Data, c)
    IN  IF IsQual(Data, c)
        THEN Clamp(Floor(size * tn, TDen), 0, size - 1)
        ELSE Round((size - 1) * tn, TDen)

\* C4: for every registered colormap and every t in [0,1], LerpTable returns
\* the entry of the colormap's own table at clamp(floor(size*t), 0, size-1)
\* (qualitative) or round((size-1)*t) (continuous); for two continuous keys
\* and t = 0.5 that is entry 128.
LerpTableDualPolicy ==
    (op.kind = "LerpTable") =>
        LET c == op.cmap
            idx == PolicyIndex(c, op.t)
        IN  /\ idx \in 0..(GetTableSize(Data, c) - 1)
            /\ op.ret = GetTableColor(Data, c, idx)
            /\ (~IsQual(Data, c) /\ GetKeyCount(Data, c) = 2 /\ 2 * op.t = TDen) =>
                   (GetTableSize(Data, c) = 256 /\ op.ret = GetTableColor(Data, c, 128))

\* The same for the colormaps that have a key: the part of C4 that does not
\* depend on Append taking a colormap without keys.
LerpTableDualPolicyWithKeys ==
    (op.kind = "LerpTable" /\ GetKeyCount(Data, op.cmap) >= 1) =>
        LET c == op.cmap
            idx == PolicyIndex(c, op.t)
        IN  /\ idx \in 0..(GetTableSize(Data, c) - 1)
            /\ op.ret = GetTableColor(Data, c, idx)
            /\ (~IsQual(Data, c) /\ GetKeyCount(Data, c) = 2 /\ 2 * op.t = TDen) =>
                   (GetTableSize(Data, c) = 256 /\ op.ret = GetTableColor(Data, c, 128))

\* C5: for a colormap of either kind with at least one key, LerpTable at
\* t = 0 is its first key and at t = 1 the last entry of its table.
LerpTableEndpoints ==
    (op.kind = "LerpTable" /\ GetKeyCount(Data, op.cmap) >= 1) =>
        LET c == op.cmap
        IN  /\ (op.t = 0) => (op.ret = GetKeyColor(Data, c, 0))
            /\ (op.t = TDen) =>
                   (op.ret = GetTableColor(Data, c, GetTableSize(Data, c) - 1))

\* LerpTable has just been called with t = 1 on a qualitative colormap of
\* two different keys that is the second of the registry
LerpTableEndpointsWitness ==
    /\ op.kind = "LerpTable" /\ op.cmap = 1 /\ op.t = TDen
    /\ IsQual(Data, 1) /\ GetKeyCount(Data, 1) = 2
    /\ GetKeyColor(Data, 1, 0) # GetKeyColor(Data, 1, 1)
    /\ op.ret = GetKeyColor(Data, 1, 1)

\* the table _AppendTable builds from the keys of colormap c
BuiltFromKeys(d, c) ==
    LET k == GetKeyCount(d, c)
        ks == KeysOf(d, c)
    IN  IF IsQual(d, c) THEN TableOf(d, c) = ks
        ELSE /\ GetTableSize(d, c) = 255 * (k - 1) + 1
             /\ k >= 1 =>
                    TableOf(d, c) =
                        [n \in 1..(255 * (k - 1)) |->
                            MixOfKeys[ks[(n - 1) \div 255 + 1], ks[(n - 1) \div 255 + 2]]
                                     [(n - 1) % 255]]
                        \o <<ks[k]>>

\* C6 as stated: SetKeyColor(cmap, idx, value) rebuilds the table of cmap
\* only; the table of no other colormap is written by the call.
SetKeyColorRebuildsOneTable ==
    (op.kind = "SetKeyColor") => (rebuilt = {op.cmap})

\* C6 as amended: SetKeyColor(cmap, idx, value) replaces that one key and
\* rebuilds the table of every registered colormap; the table of cmap is
\* then the one built from its new keys, and every other colormap has the
\* table entries, the table size and the table offset it had before.
SetKeyColorRebuildsAllTables ==
    [][(op'.kind = "SetKeyColor") =>
           LET c == op'.cmap
           IN  /\ Keys' = [Keys EXCEPT ![At(KeyOffsets, c) + op'.idx + 1] = op'.value]
               /\ UNCHANGED <<KeyCounts, KeyOffsets, Text, TextOffsets, Quals, Map, Count>>
               /\ rebuilt' = Cmaps
               /\ BuiltFromKeys(Data', c)
               /\ \A o \in Cmaps \ {c} :
                      /\ GetTableSize(Data', o) = GetTableSize(Data, o)
                      /\ At(TableOffsets', o) = At(TableOffsets, o)
                      /\ TableOf(Data', o) = TableOf(Data, o)]_vars

\* SetKeyColor has just been called on the first of two colormaps with two
\* keys each, the first continuous; both tables were written
SetKeyColorRebuildsAllTablesWitness ==
    /\ op.kind = "SetKeyColor" /\ op.cmap = 0 /\ Count = 2
    /\ ~IsQual(Data, 0) /\ GetKeyCount(Data, 0) = 2 /\ GetKeyCount(Data, 1) = 2
    /\ GetKeyColor(Data, 0, op.idx) = op.value
    /\ rebuilt = {0, 1}

\* C7: the n-th successful Append returns n-1; after any later call of
\* Append (successful or rejected) and any SetKeyColor on another colormap,
\* GetIndex of a registered colormap's name is still its index and its keys,
\* key count, qualitative flag and table are what they were.
ColormapIdentityStable ==
    [][/\ (op'.kind = "Append" /\ op'.ret # -1) => (op'.ret = Count /\ Count' = Count + 1)
       /\ (Count' # Count) => (op'.kind = "Append" /\ op'.ret # -1)
       /\ \A c \in Cmaps :
              /\ GetIndex(Data, GetName(Data, c)) = c
              /\ GetName(Data', c) = GetName(Data, c)
              /\ GetIndex(Data', GetName(Data, c)) = c
              /\ ~(op'.kind = "SetKeyColor" /\ op'.cmap = c) =>
                     /\ KeysOf(Data', c) = KeysOf(Data, c)
                     /\ GetKeyCount(Data', c) = GetKeyCount(Data, c)
                     /\ IsQual(Data', c) = IsQual(Data, c)
                     /\ GetTableSize(Data', c) = GetTableSize(Data, c)
                     /\ TableOf(Data', c) = TableOf(Data, c)]_vars

\* the second successful Append has returned 1, after an Append the
\* registry rejected; the first colormap is still found under its name
ColormapIdentityStableWitness ==
    /\ op.kind = "Append" /\ op.ret = 1 /\ Count = 2
    /\ GetKeyCount(Data, 0) = 2 /\ GetKeyCount(Data, 1) = 2
    /\ GetIndex(Data, GetName(Data, 0)) = 0
    /\ GetIndex(Data, GetName(Data, 1)) = 1

-----------------------------------------------------------------------------
(* Properties of the ticker *)

\* the call just made added a tick with a label: show_label and a non-null
\* label, or a non-null formatter
Labelled(o) == o.kind = "AddTick" /\ o.show_label /\ o.label # NullLabel

\* C8: the i-th tick has Idx = i; AddTick leaves the earlier ticks as they
\* are; Reset empties the ticks and the text buffer, so that TickCount() is 0
\* and the next tick gets Idx 0 and, if labelled, TextOffset 0.
TickIdxIsInsertionOrder ==
    [][/\ \A i \in 0..(Len(Ticks') - 1) : At(Ticks', i).Idx = i
       /\ (tickOp'.kind = "AddTick") =>
              /\ Len(Ticks') = Len(Ticks) + 1
              /\ SubSeq(Ticks', 1, Len(Ticks)) = Ticks
       /\ (tickOp'.kind = "Reset") =>
              /\ Ticks' = <<>> /\ TextBuffer' = <<>>
              /\ TickCount(Ticker') = 0 /\ TextSize(TextBuffer') = 0
       /\ (tickOp'.kind = "AddTick" /\ tickOp'.prev = "Reset") =>
              /\ At(Ticks', 0).Idx = 0
              /\ Labelled(tickOp') => At(Ticks', 0).TextOffset = 0]_vars

\* a labelled tick has just been added as the first one after a Reset
TickIdxIsInsertionOrderWitness ==
    /\ tickOp.kind = "AddTick" /\ tickOp.prev = "Reset" /\ Labelled(tickOp)
    /\ Len(Ticks) = 1 /\ At(Ticks, 0).Idx = 0 /\ At(Ticks, 0).TextOffset = 0

\* C9: a tick added with a label has TextOffset = the size of the text
\* buffer before the call, its label and terminator are copied there and
\* GetText returns the label, also after later AddTick calls; the offsets of
\* labelled ticks increase strictly; a tick added without a label keeps
\* TextOffset -1 and leaves the text buffer as it is.
TickLabelStored ==
    [][(tickOp'.kind = "AddTick") =>
           LET n == Len(Ticks)
               new == At(Ticks', n)
               label == tickOp'.label
               off == TextSize(TextBuffer)
           IN  /\ Labelled(tickOp') =>
                      /\ new.TextOffset = off
                      /\ TextSize(TextBuffer') = off + Len(label) + 1
                      /\ SubSeq(TextBuffer', off + 1, off + Len(label) + 1) = label \o <<0>>
                      /\ GetText(Ticker', n) = label
               /\ ~Labelled(tickOp') =>
                      /\ new.TextOffset = -1
                      /\ TextBuffer' = TextBuffer
               /\ \A i \in 0..(n - 1) :
                      At(Ticks, i).TextOffset # -1 => GetText(Ticker', i) = GetText(Ticker, i)
               /\ \A i \in 0..n, j \in 0..n :
                      (i < j /\ At(Ticks', i).TextOffset # -1 /\ At(Ticks', j).TextOffset # -1)
                          => At(Ticks', i).TextOffset < At(Ticks', j).TextOffset]_vars

\* three ticks: "10" by label, one without a label, "0" from the formatter;
\* the first still reads "10"
TickLabelStoredWitness ==
    /\ tickOp.kind = "AddTick" /\ Labelled(tickOp) /\ Len(Ticks) = 3
    /\ At(Ticks, 0).TextOffset = 0 /\ GetText(Ticker, 0) = <<49, 48>>
    /\ At(Ticks, 1).TextOffset = -1
    /\ At(Ticks, 2).TextOffset = 3 /\ GetText(Ticker, 2) = <<48>>

-----------------------------------------------------------------------------
(* ImMixU32 on its own: one call, of either build, with any of the colours  *)
(* below and any factor in [0 256].                                         *)

\* the largest mix factor: "Mix color a and b by factor s in [0 256]"
MaxMixFactor == 256

\* 0x00000000, 0xFFFFFFFF, 0xFF0000FF, 0x0000FFFF, 0x80FF017F, 0x01FE807F
MixColors == {<<0, 0>>, <<65535, 65535>>, <<255, 65280>>, <<65535, 0>>,
              <<383, 33023>>, <<32895, 510>>}

InitMixCall ==
    /\ mixBuild \in {"MIX32", "MIX64"}
    /\ mixA \in MixColors /\ mixB \in MixColors /\ mixS \in 0..MaxMixFactor
    /\ mixRet = <<0, 0>> /\ mixPc = "call"

CallImMixU32 ==
    /\ mixPc = "call"
    /\ mixRet' = IF mixBuild = "MIX64" THEN ImMixU32_MIX64(mixA, mixB, mixS)
                 ELSE ImMixU32(mixA, mixB, mixS)
    /\ mixPc' = "done"
    /\ UNCHANGED <<mixBuild, mixA, mixB, mixS, cmapVars, op, rebuilt, tickerVars, tickOp>>

InitMix == InitCmap /\ InitTicker /\ InitMixCall

NextMix == CallImMixU32

SpecMix == InitMix /\ [][NextMix]_vars

\* C10: for a factor s in [0,256] every 8-bit channel of ImMixU32(a, b, s) is
\* floor((a_c*(256-s) + b_c*s) / 256), no channel carrying into another;
\* ImMixU32(a, b, 0) = a and ImMixU32(a, b, 256) = b.
MixIsPerChannel ==
    (mixPc = "done") =>
        /\ \A c \in 0..3 :
               Channel(mixRet, c) =
                   (Channel(mixA, c) * (256 - mixS) + Channel(mixB, c) * mixS) \div 256
        /\ mixRet[1] \in 0..(Limb - 1) /\ mixRet[2] \in 0..(Limb - 1)
        /\ (mixS = 0) => (mixRet = mixA)
        /\ (mixS = 256) => (mixRet = mixB)

\* the default build has mixed 0xFFFFFFFF and 0xFF0000FF half and half into
\* 0xFF7F7FFF: the two middle channels are halved, the outer two stay 255
MixIsPerChannelWitness ==
    /\ mixPc = "done" /\ mixBuild = "MIX32" /\ mixS = 128
    /\ mixA = <<65535, 65535>> /\ mixB = <<255, 65280>>
    /\ mixRet = <<32767, 65407>>

\* the sum of the first n entries of a sequence of ints
RECURSIVE SumFirst(_, _)
SumFirst(seq, n) == IF n = 0 THEN 0 ELSE SumFirst(seq, n - 1) + seq[n]

\* the five parallel arrays have one entry per colormap, the offsets are the
\* running sums of the counts and sizes, and Tables holds exactly the tables
ArraysConsistent ==
    /\ Len(KeyCounts) = Count /\ Len(KeyOffsets) = Count
    /\ Len(TableSizes) = Count /\ Len(TableOffsets) = Count
    /\ Len(Quals) = Count
    /\ \A c \in Cmaps :
           /\ At(KeyOffsets, c) = SumFirst(KeyCounts, c)
           /\ At(TableOffsets, c) = SumFirst(TableSizes, c)
           /\ At(TableSizes, c) >= 0
    /\ Len(Tables) = SumFirst(TableSizes, Count)
    /\ Len(Keys) = SumFirst(KeyCounts, Count)

\* C11: after any sequence of Append and SetKeyColor calls, for every key
\* count Append accepts (a continuous colormap of 0 or 1 keys included),
\* KeyCounts, KeyOffsets, TableSizes, TableOffsets and Quals have Count
\* entries, KeyOffsets[i] and TableOffsets[i] are the sums of the earlier
\* KeyCounts and TableSizes, every TableSizes[i] >= 0 and Tables is as long
\* as the sum of TableSizes.
RegistryArraysConsistent == ArraysConsistent

\* a continuous colormap without keys is registered: the case C11 fails on
HasKeylessContinuous ==
    \E c \in Cmaps : ~IsQual(Data, c) /\ GetKeyCount(Data, c) = 0

\* The part of C11 the code keeps: the arrays are consistent as long as no
\* continuous colormap without keys has been appended.
RegistryArraysConsistentWithKeys ==
    HasKeylessContinuous \/ ArraysConsistent

\* A continuous colormap without keys always leaves TableSizes = -254 next
\* to the one entry _AppendTable pushed for it.
KeylessContinuousBreaksSizes ==
    \A c \in Cmaps :
        (~IsQual(Data, c) /\ GetKeyCount(Data, c) = 0) =>
            /\ GetTableSize(Data, c) = 1 - 255
            /\ Len(Tables) # SumFirst(TableSizes, Count)

=============================================================================
